---- MODULE Spec2Model ----
(***************************************************************************)
(* Model of src/app.py: the Streamlit travel-itinerary chatbot.            *)
(*                                                                         *)
(* Texts are TLA+ strings; the Python string methods the program uses      *)
(* (split, strip, lower, startswith, in, int) are computed character by    *)
(* character by the operators of the first section.                        *)
(***************************************************************************)
EXTENDS Integers, Sequences, FiniteSets, TLC

(***************************************************************************)
(* Bounds of the model.                                                    *)
(***************************************************************************)
\* number of lines of the texts handed to extract_itinerary_data
MaxLines == 3

\* number of prompts submitted in a session
MaxPrompts == 3

\* number of store operations on the cache
MaxStores == 3

MaxEvents == 3

(***************************************************************************)
(* Python string primitives.                                               *)
(***************************************************************************)
None == "<None>"

\* an optional value that is not a string (a date, a time): Python's None is
\* the empty set, a value x the singleton {x}
NoValue == {}

Some(x) == {x}

Whitespace == {" ", "\t", "\n", "\r", "\f"}

Digits == "0123456789"

UpperLetters == "ABCDEFGHIJKLMNOPQRSTUVWXYZ"

LowerLetters == "abcdefghijklmnopqrstuvwxyz"

\* s[i] (1-based), as a one-character string
CharAt(s, i) == SubSeq(s, i, i)

\* s[i:] for a 1-based i
Suffix(s, i) == SubSeq(s, i, Len(s))

\* s.startswith(p)
startswith(s, p) == Len(s) >= Len(p) /\ SubSeq(s, 1, Len(p)) = p

\* s.find(sub) + 1: the 1-based position of the first occurrence, 0 if none
find(s, sub) ==
    LET hits == {i \in 1..(Len(s) - Len(sub) + 1) : SubSeq(s, i, i + Len(sub) - 1) = sub}
    IN  IF hits = {} THEN 0 ELSE CHOOSE i \in hits : \A j \in hits : i <= j

\* sub in s
contains(s, sub) == find(s, sub) # 0

\* s.split(sep): the list of the parts between the occurrences of sep
RECURSIVE split(_, _)
split(s, sep) ==
    LET i == find(s, sep)
    IN  IF i = 0 THEN <<s>>
        ELSE <<SubSeq(s, 1, i - 1)>> \o split(Suffix(s, i + Len(sep)), sep)

\* s.split(sep, 1), for an s that contains sep
split1(s, sep) ==
    LET i == find(s, sep)
    IN  <<SubSeq(s, 1, i - 1), Suffix(s, i + Len(sep))>>

RECURSIVE lstrip(_)
lstrip(s) ==
    IF Len(s) > 0 /\ CharAt(s, 1) \in Whitespace THEN lstrip(Suffix(s, 2)) ELSE s

RECURSIVE rstrip(_)
rstrip(s) ==
    IF Len(s) > 0 /\ CharAt(s, Len(s)) \in Whitespace
    THEN rstrip(SubSeq(s, 1, Len(s) - 1)) ELSE s

\* s.strip()
strip(s) == rstrip(lstrip(s))

\* the lower-case letter of every upper-case letter
LowerOf ==
    [c \in {CharAt(UpperLetters, i) : i \in 1..Len(UpperLetters)} |->
        CharAt(LowerLetters, find(UpperLetters, c))]

\* c.lower() for one character
lower_char(c) == IF c \in DOMAIN LowerOf THEN LowerOf[c] ELSE c

\* s.lower(): every character lower-cased, the two halves of s in turn
RECURSIVE lower(_)
lower(s) ==
    IF Len(s) = 0 THEN s
    ELSE IF Len(s) = 1 THEN lower_char(s)
    ELSE lower(SubSeq(s, 1, Len(s) \div 2)) \o lower(Suffix(s, Len(s) \div 2 + 1))

\* the value of a string of decimal digits with single underscores between
\* digits, read left to right; acc is the value read so far
RECURSIVE digits_value(_, _)
digits_value(s, acc) ==
    IF Len(s) = 0 THEN acc
    ELSE IF CharAt(s, 1) = "_" THEN digits_value(Suffix(s, 2), acc)
    ELSE digits_value(Suffix(s, 2), 10 * acc + find(Digits, CharAt(s, 1)) - 1)

\* the literal grammar int() accepts after the sign: digit (["_"] digit)*
is_digit_string(s) ==
    /\ Len(s) > 0
    /\ \A i \in 1..Len(s) :
         \/ contains(Digits, CharAt(s, i))
         \/ /\ CharAt(s, i) = "_"
            /\ 1 < i /\ i < Len(s)
            /\ contains(Digits, CharAt(s, i - 1))
            /\ contains(Digits, CharAt(s, i + 1))

\* int(s): ok = FALSE stands for ValueError
int(s) ==
    LET t    == strip(s)
        sgn  == Len(t) > 0 /\ CharAt(t, 1) \in {"+", "-"}
        body == IF sgn THEN Suffix(t, 2) ELSE t
    IN  IF is_digit_string(body)
        THEN [ok  |-> TRUE,
              val |-> IF sgn /\ CharAt(t, 1) = "-"
                      THEN 0 - digits_value(body, 0) ELSE digits_value(body, 0)]
        ELSE [ok |-> FALSE, val |-> 0]

\* "\n".join(ls)
RECURSIVE join_lines(_)
join_lines(ls) ==
    IF Len(ls) = 0 THEN ""
    ELSE IF Len(ls) = 1 THEN ls[1]
    ELSE ls[1] \o "\n" \o join_lines(Tail(ls))

(***************************************************************************)
(* extract_itinerary_data                                                  *)
(***************************************************************************)
\* dict.get(key, default)
dict_get(d, key, default) == IF key \in DOMAIN d THEN d[key] ELSE default

\* d with d[key] = value
dict_set(d, key, value) ==
    [k \in DOMAIN d \cup {key} |-> IF k = key THEN value ELSE d[k]]

\* d.update(e)
dict_update(d, e) ==
    [k \in DOMAIN d \cup DOMAIN e |-> IF k \in DOMAIN e THEN e[k] ELSE d[k]]

EmptyDict == [k \in {} |-> 0]

\* the hour of an activity's time part
parse_hour(time_part) ==
    IF contains(time_part, "AM") \/ contains(time_part, "PM")
    THEN LET time_str == strip(time_part)
         IN  IF contains(time_str, "AM")
             THEN LET hour_str == strip(split(time_str, "AM")[1])
                      n        == int(split(hour_str, ":")[1])
                  IN  IF n.ok THEN n.val ELSE 9
             ELSE LET hour_str == strip(split(time_str, "PM")[1])
                      n        == int(split(hour_str, ":")[1])
                  IN  IF n.ok THEN n.val + 12 ELSE 9
    ELSE 9

\* the destination step of the loop body
extract_destination(st, line) ==
    IF contains(line, "Itinerary for")
    THEN LET parts == split(line, "Itinerary for")
         IN  IF Len(parts) > 1
             THEN [st EXCEPT !.data = dict_set(st.data, "destination", strip(parts[2]))]
             ELSE st
    ELSE st

\* a day-header step that starts the day of every parsed header afresh
extract_day_reset(st, line) ==
    IF startswith(line, "## Day") \/ startswith(line, "# Day")
    THEN LET n == int(split(split(line, "Day")[2], ":")[1])
         IN  IF n.ok
             THEN [current_day |-> n.val,
                   data |-> dict_set(st.data, "activities",
                                     dict_set(st.data["activities"], n.val, <<>>))]
             ELSE st
    ELSE st

\* the day-header step of the loop body
extract_day(st, line) ==
    IF startswith(line, "## Day") \/ startswith(line, "# Day")
    THEN LET n == int(split(split(line, "Day")[2], ":")[1])
         IN  IF n.ok
             THEN [current_day |-> n.val,
                   data |-> IF n.val \in DOMAIN st.data["activities"]
                            THEN st.data
                            ELSE dict_set(st.data, "activities",
                                          dict_set(st.data["activities"], n.val, <<>>))]
             ELSE st
    ELSE st

\* an activity step that accepts bullet lines whatever the current day
extract_activity_any_day(st, line) ==
    IF (startswith(line, "- ") \/ startswith(line, "* "))
    THEN LET activity_text == strip(Suffix(line, 3))
         IN  IF contains(activity_text, ":")
             THEN LET sp          == split1(activity_text, ":")
                      time_part   == sp[1]
                      description == sp[2]
                      acts        == st.data["activities"]
                      activity    == [name        |-> strip(description),
                                      hour        |-> parse_hour(time_part),
                                      duration    |-> 2,
                                      description |-> strip(description),
                                      location    |-> dict_get(st.data, "destination", "")]
                  IN  [st EXCEPT !.data =
                          dict_set(st.data, "activities",
                                   dict_set(acts, st.current_day,
                                            Append(dict_get(acts, st.current_day, <<>>),
                                                   activity)))]
             ELSE st
    ELSE st

\* the activity step of the loop body
extract_activity(st, line) ==
    IF (startswith(line, "- ") \/ startswith(line, "* ")) /\ st.current_day > 0
    THEN LET activity_text == strip(Suffix(line, 3))
         IN  IF contains(activity_text, ":")
             THEN LET sp          == split1(activity_text, ":")
                      time_part   == sp[1]
                      description == sp[2]
                      acts        == st.data["activities"]
                      activity    == [name        |-> strip(description),
                                      hour        |-> parse_hour(time_part),
                                      duration    |-> 2,
                                      description |-> strip(description),
                                      location    |-> dict_get(st.data, "destination", "")]
                  IN  [st EXCEPT !.data =
                          dict_set(st.data, "activities",
                                   dict_set(acts, st.current_day,
                                            Append(dict_get(acts, st.current_day, <<>>),
                                                   activity)))]
             ELSE st
    ELSE st

\* one iteration of the loop over the lines
extract_line(st, line) ==
    extract_activity(extract_day(extract_destination(st, line), line), line)

RECURSIVE extract_loop(_, _)
extract_loop(st, lines) ==
    IF Len(lines) = 0 THEN st
    ELSE extract_loop(extract_line(st, Head(lines)), Tail(lines))

extract_itinerary_data(markdown_text) ==
    extract_loop([current_day |-> 0, data |-> [activities |-> EmptyDict]],
                 split(markdown_text, "\n")).data

(***************************************************************************)
(* Response cache: COMMON_QUERIES and get_cached_response                  *)
(***************************************************************************)
\* the canned answers, in the order of the dict literal
COMMON_QUERIES ==
    <<
       [key |-> "recommend restaurants",
        response |-> "Here are some top restaurant recommendations for your destination:\n\n1. **Local Cuisine** - Always try the regional specialties\n2. **High-rated places** - Check TripAdvisor or Google reviews\n3. **Street Food** - Often the most authentic experience\n4. **Fine Dining** - Make reservations in advance\n\nWould you like me to recommend specific restaurants based on your destination?"],
       [key |-> "what should i pack",
        response |-> "**Essential Packing List:**\n\n- Travel documents (passport, ID, tickets)\n- Appropriate clothing for the climate\n- Comfortable walking shoes\n- Toiletries and medications\n- Phone, charger, and adapter\n- Copy of your itinerary\n- Travel insurance information\n\nFor your specific destination, also consider any special items based on planned activities."],
       [key |-> "best time to visit",
        response |-> "The best time to visit depends on your destination. Generally:\n\n- Consider shoulder seasons (spring/fall) for better prices and fewer crowds\n- Check seasonal weather patterns for your specific location\n- Be aware of local holidays or festivals that might affect your visit\n\nTell me your specific destination for more tailored advice."],
       [key |-> "transportation options",
        response |-> "**Common Transportation Options:**\n\n- Public transit (subway, bus, tram)\n- Taxis and rideshare apps\n- Rental cars\n- Bicycles\n- Walking (for smaller cities)\n- Tours and shuttles\n\nThe best option depends on your destination, budget, and comfort level. What's your destination?"]
    >>

\* a loop that keeps the last matching entry instead of returning the first
RECURSIVE common_query_scan_last(_, _)
common_query_scan_last(query_lower, i) ==
    IF i > Len(COMMON_QUERIES) THEN None
    ELSE LET later == common_query_scan_last(query_lower, i + 1)
         IN  IF later # None THEN later
             ELSE IF contains(query_lower, COMMON_QUERIES[i].key)
             THEN COMMON_QUERIES[i].response ELSE None

\* the loop over COMMON_QUERIES.items(), from entry i on
RECURSIVE common_query_scan(_, _)
common_query_scan(query_lower, i) ==
    IF i > Len(COMMON_QUERIES) THEN None
    ELSE IF contains(query_lower, COMMON_QUERIES[i].key) THEN COMMON_QUERIES[i].response
    ELSE common_query_scan(query_lower, i + 1)

\* a lookup that consults the canned answers before the session's cache
get_cached_response_canned_first(cache, query) ==
    LET canned == common_query_scan(lower(query), 1)
    IN  IF canned # None THEN canned
        ELSE IF query \in DOMAIN cache THEN cache[query] ELSE None

\* get_cached_response(query), reading the session's cached_responses
get_cached_response(cache, query) ==
    IF query \in DOMAIN cache THEN cache[query]
    ELSE common_query_scan(lower(query), 1)

\* st.session_state.cached_responses[prompt] = response
store(cache, query, response) == dict_set(cache, query, response)

\* the truth value Python gives a string or None
truthy(v) == v # None /\ v # ""

(***************************************************************************)
(* Backend client: call_deepseek under tenacity's retry, and stream_text   *)
(***************************************************************************)
\* @retry(stop=stop_after_attempt(3), wait=wait_fixed(2))
STOP_AFTER_ATTEMPT == 3

WAIT_FIXED == 2

\* what one requests.post can do: a 2xx response, a connection error, or a
\* response whose status makes raise_for_status raise
Outcomes == {"ok", "connection_error", "http_error"}

SYSTEM_CONTENT == "You are a travel planning expert EXCLUSIVELY focused on creating travel itineraries.\nIMPORTANT: You MUST ONLY respond to queries about travel planning, itineraries, or destination information.\nFor ANY other topics (including technology, news, general knowledge, or non-travel questions):\n1. DO NOT provide any information\n2. POLITELY redirect the user to ask about travel planning\n3. REFUSE to engage with the query\n4. EXPLAIN that you are specifically designed only for travel planning\n\nFor travel queries:\n- Extract destination, days, and preferences from user input\n- Ask follow-up questions if needed\n- Generate detailed itineraries in markdown with daily activities, dining, and tips\n- Be concise and friendly\n\nRemember: You are STRICTLY LIMITED to travel planning assistance ONLY."

\* [m for m in l if m.get("role") != "system"]
RECURSIVE non_system(_)
non_system(l) ==
    IF Len(l) = 0 THEN <<>>
    ELSE (IF Head(l).role # "system" THEN <<Head(l)>> ELSE <<>>) \o non_system(Tail(l))

\* a request body that carries the whole history
messages_to_send_all(messages) ==
    <<[role |-> "system", content |-> SYSTEM_CONTENT]>> \o non_system(messages)

\* the messages of the request body
messages_to_send(messages) ==
    LET relevant_messages ==
            IF Len(messages) > 4 THEN SubSeq(messages, Len(messages) - 3, Len(messages))
            ELSE messages
    IN  <<[role |-> "system", content |-> SYSTEM_CONTENT]>> \o non_system(relevant_messages)

\* one execution of the body of call_deepseek at time t: the counter and the
\* timestamp are written before the request is sent; a RequestException is
\* caught inside the body, which then returns None and raises nothing
call_deepseek_body(messages, calls, t, outcome) ==
    [raised          |-> FALSE,
     response        |-> IF outcome = "ok" THEN "response" ELSE None,
     request         |-> messages_to_send(messages),
     api_calls       |-> calls + 1,
     last_query_time |-> Some(t),
     now             |-> t]

\* tenacity's loop: the body is run again, WAIT_FIXED later, only when it
\* raised and fewer than STOP_AFTER_ATTEMPT attempts were made
RECURSIVE retry_loop(_, _, _, _, _)
retry_loop(attempt, messages, calls, t, outcomes) ==
    LET r == call_deepseek_body(messages, calls, t, outcomes[attempt])
    IN  IF r.raised /\ attempt < STOP_AFTER_ATTEMPT
        THEN retry_loop(attempt + 1, messages, r.api_calls, t + WAIT_FIXED, outcomes)
        ELSE [response        |-> r.response,
              request         |-> r.request,
              api_calls       |-> r.api_calls,
              last_query_time |-> r.last_query_time,
              now             |-> r.now,
              attempts        |-> attempt]

\* call_deepseek(messages) as the handler sees it
call_deepseek(messages, calls, t, outcomes) ==
    retry_loop(1, messages, calls, t, outcomes)

\* s.replace(old, new)
RECURSIVE replace(_, _, _)
replace(s, old, new) ==
    LET i == find(s, old)
    IN  IF i = 0 THEN s
        ELSE SubSeq(s, 1, i - 1) \o new \o replace(Suffix(s, i + Len(old)), old, new)

\* the characters a JSON string literal cannot hold unescaped
JsonBare(s) == \A i \in 1..Len(s) : CharAt(s, i) \notin {"\"", "\n", "\t", "\r", "\f"}

\* the decoding of the body s of a JSON string literal, one escape sequence
\* after the other, acc being the text decoded so far: ok is FALSE where
\* json.loads raises
RECURSIVE json_string(_, _)
json_string(s, acc) ==
    LET i == find(s, "\\")
    IN  IF i = 0
        THEN IF JsonBare(s) THEN [ok |-> TRUE, val |-> acc \o s]
             ELSE [ok |-> FALSE, val |-> ""]
        ELSE IF /\ JsonBare(SubSeq(s, 1, i - 1))
                /\ Len(s) > i
                /\ CharAt(s, i + 1) \in {"n", "\"", "\\"}
        THEN json_string(Suffix(s, i + 2),
                         acc \o SubSeq(s, 1, i - 1)
                             \o (IF CharAt(s, i + 1) = "n" THEN "\n" ELSE CharAt(s, i + 1)))
        ELSE [ok |-> FALSE, val |-> ""]

ContentPrefix == "{\"choices\":[{\"delta\":{\"content\":\""

ContentSuffix == "\"}}]}"

EmptyDelta == "{\"choices\":[{\"delta\":{}}]}"

\* json.loads(data)["choices"][0]["delta"].get("content", ""), for the event
\* payloads the backend sends: a delta with a content string or an empty
\* delta; ok is FALSE where the expression raises
delta_content(data) ==
    IF data = EmptyDelta THEN [ok |-> TRUE, val |-> ""]
    ELSE IF /\ Len(data) >= Len(ContentPrefix) + Len(ContentSuffix)
            /\ startswith(data, ContentPrefix)
            /\ Suffix(data, Len(data) - Len(ContentSuffix) + 1) = ContentSuffix
    THEN json_string(SubSeq(data, Len(ContentPrefix) + 1, Len(data) - Len(ContentSuffix)), "")
    ELSE [ok |-> FALSE, val |-> ""]

\* the chunks stream_text yields for the lines of response.iter_lines()
RECURSIVE stream_text(_)
stream_text(lines) ==
    IF Len(lines) = 0 THEN <<>>
    ELSE LET decoded_line == Head(lines)
         IN  IF decoded_line # "" /\ startswith(decoded_line, "data: ")
             THEN LET data == replace(decoded_line, "data: ", "")
                  IN  IF data = "[DONE]" THEN <<>>
                      ELSE LET chunk == delta_content(data)
                           IN  IF chunk.ok /\ chunk.val # ""
                               THEN <<chunk.val>> \o stream_text(Tail(lines))
                               ELSE stream_text(Tail(lines))
             ELSE stream_text(Tail(lines))

\* the loop of stream_text leaves through its break: a line "data: [DONE]"
\* is among the lines
RECURSIVE stream_done(_)
stream_done(lines) ==
    IF Len(lines) = 0 THEN FALSE
    ELSE IF /\ startswith(Head(lines), "data: ")
            /\ replace(Head(lines), "data: ", "") = "[DONE]"
         THEN TRUE
         ELSE stream_done(Tail(lines))

\* the iteration raises: the body of the response breaks off after its lines
\* (iter_lines raises, or a line is not UTF-8 and decode raises) and the loop
\* has not left through its break before
stream_raises(stream) == stream.broken /\ ~stream_done(stream.lines)

\* full_response += chunk, over the chunks
RECURSIVE concat(_)
concat(chunks) == IF Len(chunks) = 0 THEN "" ELSE Head(chunks) \o concat(Tail(chunks))

(***************************************************************************)
(* Session state (st.session_state) and the script run                     *)
(***************************************************************************)
VARIABLES
    messages,             \* st.session_state.messages
    itinerary_data,       \* st.session_state.itinerary_data
    itinerary_generated,  \* st.session_state.itinerary_generated
    full_itinerary_text,  \* st.session_state.full_itinerary_text
    api_calls,            \* st.session_state.api_calls
    last_query_time,      \* st.session_state.last_query_time
    use_cached_response,  \* st.session_state.use_cached_response
    cached_responses,     \* st.session_state.cached_responses
    now,                  \* the clock datetime.now() reads, in seconds
    last_run,             \* what the last chat-input run was given and did
    date_input_shown,     \* the page shows the "When does your trip start?" input
    last_export,          \* what the last export request produced
    md_text,              \* the text handed to extract_itinerary_data
    extracted,            \* its result, once the call is done
    cache_log,            \* the store calls made on the cache, in order
    cache_op,             \* the last cache operation and its result
    events,               \* the event lines of a streamed response
    streamed              \* what stream_text yielded for them, once it has run

session_vars == <<messages, itinerary_data, itinerary_generated, full_itinerary_text,
                  api_calls, last_query_time, use_cached_response, cached_responses,
                  now, last_run, date_input_shown, last_export>>

extract_vars == <<md_text, extracted>>

cache_vars == <<cache_log, cache_op>>

stream_vars == <<events, streamed>>

vars == <<messages, itinerary_data, itinerary_generated, full_itinerary_text,
          api_calls, last_query_time, use_cached_response, cached_responses,
          now, last_run, date_input_shown, last_export, md_text, extracted,
          cache_log, cache_op, events, streamed>>

\* the session state as one value
Session ==
    [messages            |-> messages,
     itinerary_data      |-> itinerary_data,
     itinerary_generated |-> itinerary_generated,
     full_itinerary_text |-> full_itinerary_text,
     api_calls           |-> api_calls,
     last_query_time     |-> last_query_time,
     use_cached_response |-> use_cached_response,
     cached_responses    |-> cached_responses,
     now                 |-> now]

\* datetime.date and datetime.datetime: a date is a day number, a datetime a
\* day number and the seconds since midnight; the clock counts seconds
SecondsPerHour == 60 * 60

SecondsPerDay == 24 * SecondsPerHour

date(ordinal) == [ordinal |-> ordinal]

datetime(ordinal, second) == [ordinal |-> ordinal, second |-> second]

is_datetime(value) == "second" \in DOMAIN value

\* datetime.now()
datetime_now(t) == datetime(t \div SecondsPerDay, t % SecondsPerDay)

\* timedelta(days=..., hours=...), normalised to days and seconds of a day
timedelta(days, hours) ==
    [days |-> days + (hours \div 24), seconds |-> (hours % 24) * SecondsPerHour]

\* start + delta: a datetime moves by days and seconds, a date by the days of
\* the delta only
plus(start, delta) ==
    IF is_datetime(start)
    THEN datetime(start.ordinal + delta.days
                      + ((start.second + delta.seconds) \div SecondsPerDay),
                  (start.second + delta.seconds) % SecondsPerDay)
    ELSE date(start.ordinal + delta.days)

\* the default of st.date_input: datetime.now() + timedelta(days=30), which
\* the widget keeps as a date
date_input_default(t) == date(plus(datetime_now(t), timedelta(30, 0)).ordinal)

\* the value st.date_input returns: the date the user picked in the widget,
\* its default when the widget is first rendered
date_input(t, picked) ==
    IF picked = NoValue THEN date_input_default(t) ELSE CHOOSE d \in picked : TRUE

\* the date input is rendered when the export section is displayed and the
\* itinerary holds no start date
date_input_rendered(S) ==
    S.itinerary_generated /\ S.itinerary_data["start_date"] = NoValue

\* an export section that takes the value of the date input on every display
export_section_always(S, picked) ==
    IF S.itinerary_generated
    THEN [S EXCEPT !.itinerary_data =
             dict_set(@, "start_date", Some(date_input(S.now, picked)))]
    ELSE S

\* an export section that never fills the start date
export_section_undated(S, picked) == S

\* the top of the export section, picked being what the user chose in the
\* date input: a missing start date is filled with the value of the date
\* input as soon as the section is displayed
export_section_with(S, picked) ==
    IF date_input_rendered(S)
    THEN [S EXCEPT !.itinerary_data =
             dict_set(@, "start_date", Some(date_input(S.now, picked)))]
    ELSE S

\* the top of the export section in a run where the user picked no date
export_section(S) == export_section_with(S, NoValue)

\* the date input is on the page after a run exactly when the run reached it,
\* that is when the run gave the itinerary its start date
date_input_on_page(before, after) ==
    before["start_date"] = NoValue /\ after["start_date"] # NoValue

\* event.begin = value: a date becomes the midnight that starts it
begin(value) == IF is_datetime(value) THEN value ELSE datetime(value.ordinal, 0)

\* one event of the calendar; uid is what tells two events of cal.events apart
event_of(start_date, day_num, i, activity) ==
    [uid         |-> <<day_num, i>>,
     name        |-> activity.name,
     begin       |-> begin(plus(start_date, timedelta(day_num - 1, activity.hour))),
     duration    |-> timedelta(0, activity.duration),
     description |-> activity.description,
     location    |-> activity.location]

\* the events create_ics adds for the activities, under the start date it uses
events_of(start_date, activities) ==
    UNION {{event_of(start_date, day_num, i, activities[day_num][i]) :
                i \in 1..Len(activities[day_num])} : day_num \in DOMAIN activities}

\* create_ics(data), called when the clock reads t: the events of the
\* calendar it serializes
create_ics(data, t) ==
    events_of(IF data["start_date"] # NoValue
              THEN CHOOSE d \in data["start_date"] : TRUE
              ELSE datetime_now(t),
              data["activities"])

\* an export request: the file made, the message shown, and what the file
\* was made from (the start date of a calendar, the text of a PDF or text file)
NoExport == [kind |-> "none", file |-> NoValue, message |-> None, start_date |-> NoValue,
             text |-> None]

\* the bullet character U+2022 that create_pdf puts before a list item
Bullet == "<U+2022>"

\* the paragraph create_pdf adds for a stripped, non-empty line
pdf_paragraph(line) ==
    IF startswith(line, "# ") THEN [style |-> "TitleStyle", text |-> Suffix(line, 3)]
    ELSE IF startswith(line, "## ")
         THEN [style |-> "SubtitleStyle", text |-> Suffix(line, 4)]
    ELSE IF startswith(line, "* ") \/ startswith(line, "- ")
         THEN [style |-> "BodyStyle", text |-> Bullet \o " " \o Suffix(line, 3)]
    ELSE [style |-> "BodyStyle", text |-> line]

\* the paragraphs of the lines of the text; empty lines are passed over
RECURSIVE pdf_paragraphs(_)
pdf_paragraphs(lines) ==
    IF Len(lines) = 0 THEN <<>>
    ELSE (IF strip(Head(lines)) = "" THEN <<>>
          ELSE <<pdf_paragraph(strip(Head(lines)))>>) \o pdf_paragraphs(Tail(lines))

\* create_pdf(itinerary_text, destination): the elements of the document
create_pdf(itinerary_text, destination) ==
    <<[style |-> "TitleStyle", text |-> "Travel Itinerary: " \o destination]>>
        \o pdf_paragraphs(split(itinerary_text, "\n"))

\* the "Download as PDF" button: nothing happens without a stored text
pdf_button(S) ==
    IF S.full_itinerary_text # ""
    THEN [NoExport EXCEPT
            !.kind = "pdf",
            !.file = Some(create_pdf(S.full_itinerary_text,
                                     dict_get(S.itinerary_data, "destination", "Your Trip"))),
            !.message = "PDF download started!",
            !.text = S.full_itinerary_text]
    ELSE NoExport

\* the "Download as Text" button: the file is the stored text
text_button(S) ==
    IF S.full_itinerary_text # ""
    THEN [NoExport EXCEPT
            !.kind = "text",
            !.file = Some(S.full_itinerary_text),
            !.message = "Text download started!",
            !.text = S.full_itinerary_text]
    ELSE NoExport

\* the calendar file is made from the itinerary data the button handler holds
calendar_file(S, data) ==
    [S      |-> [S EXCEPT !.itinerary_data = data],
     export |-> [NoExport EXCEPT
                   !.kind = "calendar",
                   !.file = Some(create_ics(data, S.now)),
                   !.message = "Calendar file download started!",
                   !.start_date = data["start_date"]]]

\* the "Add to Calendar" button: without a start date an error is shown; with
\* one, an itinerary without activities is extracted again from the stored
\* text before the calendar is made
calendar_button(S) ==
    IF S.itinerary_data["start_date"] # NoValue
    THEN calendar_file(S, IF DOMAIN S.itinerary_data["activities"] = {}
                          THEN dict_update(S.itinerary_data,
                                           extract_itinerary_data(S.full_itinerary_text))
                          ELSE S.itinerary_data)
    ELSE [S      |-> S,
          export |-> [NoExport EXCEPT !.kind = "calendar",
                                      !.message = "Please set a start date first"]]

DayMarkers == {"Day 1:", "Day 1 -", "## Day 1", "# Day 1"}

\* a detection that sets the generated flag whatever the extraction holds
store_itinerary_flagged(S, full_response, extracted_data) ==
    [rerun |-> TRUE,
     S |-> [S EXCEPT
              !.itinerary_generated = TRUE,
              !.full_itinerary_text = full_response,
              !.itinerary_data =
                  dict_set(dict_update(@, extracted_data), "generated", TRUE)]]

\* the body of the detection: the flag and the text are set, the reply is
\* extracted, and the extraction is merged into itinerary_data when it holds
\* a destination or a day; st.rerun() follows
store_itinerary(S, full_response, extracted_data) ==
    [rerun |-> TRUE,
     S |-> [S EXCEPT
              !.itinerary_generated = TRUE,
              !.full_itinerary_text = full_response,
              !.itinerary_data =
                  IF \/ truthy(dict_get(extracted_data, "destination", None))
                     \/ DOMAIN extracted_data["activities"] # {}
                  THEN dict_set(dict_update(@, extracted_data), "generated", TRUE)
                  ELSE @]]

\* "itinerary" in full_response.lower() or "day" in full_response.lower()
mentions_itinerary(response_lower) ==
    contains(response_lower, "itinerary") \/ contains(response_lower, "day")

\* a detection that runs on every reply, also once an itinerary is stored
detect_itinerary_again(S, full_response) ==
    IF /\ mentions_itinerary(lower(full_response))
       /\ \E day_marker \in DayMarkers : contains(full_response, day_marker)
    THEN store_itinerary(S, full_response, extract_itinerary_data(full_response))
    ELSE [rerun |-> FALSE, S |-> S]

\* the itinerary detection that follows a backend reply; rerun is TRUE when
\* st.rerun() is reached
detect_itinerary(S, full_response) ==
    IF /\ mentions_itinerary(lower(full_response))
       /\ ~S.itinerary_generated
       /\ \E day_marker \in DayMarkers : contains(full_response, day_marker)
    THEN store_itinerary(S, full_response, extract_itinerary_data(full_response))
    ELSE [rerun |-> FALSE, S |-> S]

\* a pop() that leaves the list as it is
pop_kept(l) == l

\* l.pop(): l without its last element
pop(l) == SubSeq(l, 1, Len(l) - 1)

NoRun == [kind |-> "none", prompt |-> None, outcomes |-> <<>>, attempts |-> 0,
          reply |-> None, request |-> <<>>]

\* a cached branch that counts a backend call
answer_from_cache_counted(S, appended, prompt, cached_response) ==
    [rerun |-> FALSE,
     run   |-> [NoRun EXCEPT !.kind = "hit", !.prompt = prompt, !.reply = cached_response],
     S     |-> [S EXCEPT
                  !.api_calls = @ + 1,
                  !.messages = Append(appended, [role |-> "assistant",
                                                 content |-> cached_response]),
                  !.cached_responses = store(@, prompt, cached_response)]]

\* the cached branch of the handler: the cached reply is shown, appended to
\* the history and stored under the prompt
answer_from_cache(S, appended, prompt, cached_response) ==
    [rerun |-> FALSE,
     run   |-> [NoRun EXCEPT !.kind = "hit", !.prompt = prompt, !.reply = cached_response],
     S     |-> [S EXCEPT
                  !.messages = Append(appended, [role |-> "assistant",
                                                 content |-> cached_response]),
                  !.cached_responses = store(@, prompt, cached_response)]]

\* the session once call_deepseek has returned
after_call(S, call) ==
    [S EXCEPT !.api_calls = call.api_calls,
              !.last_query_time = call.last_query_time,
              !.now = call.now]

\* what a run that called the backend was given and did
run_of_call(kind, prompt, outcomes, call, reply) ==
    [kind |-> kind, prompt |-> prompt, outcomes |-> outcomes,
     attempts |-> call.attempts, reply |-> reply, request |-> call.request]

\* response is None: the error is shown, the user turn is popped, st.stop()
backend_failed(S, appended, prompt, outcomes, call) ==
    [rerun |-> FALSE,
     run   |-> run_of_call("failed", prompt, outcomes, call, None),
     S     |-> [after_call(S, call) EXCEPT !.messages = pop(appended)]]

\* the exception of the stream is caught nowhere: the run ends where it is,
\* with the user turn in the history
backend_crashed(S, appended, prompt, outcomes, call) ==
    [rerun |-> FALSE,
     run   |-> run_of_call("crashed", prompt, outcomes, call, None),
     S     |-> [after_call(S, call) EXCEPT !.messages = appended]]

\* the outcome of the detection, with the record of the run
detected(D, run) == [rerun |-> D.rerun, run |-> run, S |-> D.S]

\* the reply has been streamed: it is appended to the history and stored
\* under the prompt, then the itinerary detection runs on it
backend_replied(S, appended, prompt, outcomes, call, full_response) ==
    detected(detect_itinerary(
                 [after_call(S, call) EXCEPT
                     !.messages = Append(appended, [role |-> "assistant",
                                                    content |-> full_response]),
                     !.cached_responses = store(@, prompt, full_response)],
                 full_response),
             run_of_call("ok", prompt, outcomes, call, full_response))

\* the backend branch of the handler
answer_from_backend(S, appended, prompt, outcomes, stream, call) ==
    IF call.response = None
    THEN backend_failed(S, appended, prompt, outcomes, call)
    ELSE IF stream_raises(stream)
         THEN backend_crashed(S, appended, prompt, outcomes, call)
         ELSE backend_replied(S, appended, prompt, outcomes, call,
                              concat(stream_text(stream.lines)))

\* the assistant's part of the handler
answer(S, appended, prompt, outcomes, stream, cached_response) ==
    IF truthy(cached_response)
    THEN answer_from_cache(S, appended, prompt, cached_response)
    ELSE answer_from_backend(S, appended, prompt, outcomes, stream,
                             call_deepseek(appended, S.api_calls, S.now, outcomes))

\* the chat input handler for a submitted prompt; outcomes is what the
\* successive requests of this run meet, stream the lines of a 2xx response
chat_input_handler(S, prompt, outcomes, stream) ==
    answer(S, Append(S.messages, [role |-> "user", content |-> prompt]),
           prompt, outcomes, stream,
           IF S.use_cached_response
           THEN get_cached_response(S.cached_responses, prompt) ELSE None)

\* the end of a run: st.rerun() runs the script once more, without a prompt
rerun_script(H) ==
    [run |-> H.run, S |-> IF H.rerun THEN export_section(H.S) ELSE H.S]

\* one run of the script for a submitted prompt: the export section comes
\* before the chat input
script_run(S, prompt, outcomes, stream) ==
    rerun_script(chat_input_handler(export_section(S), prompt, outcomes, stream))

(***************************************************************************)
(* Inputs                                                                  *)
(***************************************************************************)
ParisItinerary == "Itinerary for Paris\n## Day 1: Arrival\n- 9:00 AM: Visit Eiffel Tower\n- 7:00 PM: Dinner at Le Jules Verne\n## Day 2: Exploration\n- 10:00 AM: Louvre Museum"

BeachPlan == "Your day plan:\nDay 1 - rest at the beach"

\* the prompts a user submits
Prompts == {"What should I pack for Japan?", "Plan 2 days in Paris"}

\* json.dumps of a string, as the backend writes the content of a delta
json_escape(s) == replace(replace(replace(s, "\\", "\\\\"), "\"", "\\\""), "\n", "\\n")

\* the event line of a delta carrying content
sse_event(content) == "data: " \o ContentPrefix \o json_escape(content) \o ContentSuffix

\* the body that streams the Paris itinerary in two events
ParisBody ==
    <<sse_event("Itinerary for Paris\n## Day 1: Arrival\n- 9:00 AM: Visit Eiffel Tower\n"),
      sse_event("- 7:00 PM: Dinner at Le Jules Verne\n## Day 2: Exploration\n- 10:00 AM: Louvre Museum"),
      "data: [DONE]">>

\* the bodies of the 2xx responses the backend sends that arrive whole
StreamBodies ==
    { <<"data: [DONE]">>,
      ParisBody,
      <<sse_event(BeachPlan), "data: [DONE]">> }

\* the responses of the backend: the lines that arrive, and whether the body
\* breaks off after them
Streams ==
    {[lines |-> body, broken |-> FALSE] : body \in StreamBodies}
        \cup {[lines |-> <<sse_event("Where ")>>, broken |-> TRUE]}

\* what the successive requests of one call meet
OutcomeScripts ==
    { <<"ok", "ok", "ok">>,
      <<"connection_error", "connection_error", "ok">>,
      <<"http_error", "connection_error", "http_error">> }

\* the lines the texts handed to extract_itinerary_data are made of
LinePool ==
    { "Itinerary for Paris",
      "Trip: Itinerary for Rome ",
      "Itinerary for Paris and Itinerary for Rome",
      "## Day 1: Arrival",
      "# Day 2: Exploration",
      "## Day 0: Rest",
      "# Day -2: Before",
      "## Day two: Unnumbered",
      "## Day 3",
      "Day 3: not a header",
      "- 9:00 AM: Breakfast",
      "- 2:00 PM: Museum",
      "* 12 PM: Lunch",
      "- Afternoon: Museum",
      "- no colon here" }

RECURSIVE LineSeqs(_)
LineSeqs(n) ==
    IF n = 0 THEN {<<>>}
    ELSE LineSeqs(n - 1) \cup
         {Append(ls, l) : ls \in {x \in LineSeqs(n - 1) : Len(x) = n - 1}, l \in LinePool}

ExtractTexts == {join_lines(ls) : ls \in LineSeqs(MaxLines)} \cup {ParisItinerary}

\* the event lines the streamed responses are made of, with what each one
\* carries: a fragment of the reply, the end of the stream, or nothing
EventPool ==
    { [line |-> sse_event("Where "), kind |-> "content", content |-> "Where "],
      [line |-> sse_event("to?"), kind |-> "content", content |-> "to?"],
      [line |-> sse_event("Roaming data: buy a SIM"), kind |-> "content",
       content |-> "Roaming data: buy a SIM"],
      [line |-> sse_event(""), kind |-> "content", content |-> ""],
      [line |-> "data: " \o EmptyDelta, kind |-> "content", content |-> ""],
      [line |-> "data: {\"choices\":[", kind |-> "malformed", content |-> ""],
      [line |-> ": ping", kind |-> "other", content |-> ""],
      [line |-> "", kind |-> "other", content |-> ""],
      [line |-> "data: [DONE]", kind |-> "done", content |-> ""] }

RECURSIVE EventSeqs(_)
EventSeqs(n) ==
    IF n = 0 THEN {<<>>}
    ELSE EventSeqs(n - 1) \cup
         {Append(es, e.line) : es \in {x \in EventSeqs(n - 1) : Len(x) = n - 1},
                               e \in EventPool}

\* the queries and replies of the cache operations
CacheQueries ==
    { "hi",
      "What should I pack for Japan?",
      "BEST TIME TO VISIT Rome, and what should i pack",
      "Transportation Options" }

CacheReplies == {"", "Bring an umbrella."}

\* the dates a user picks in the date input: 2025-06-01 and the day after
StartDates == {date(739403), date(739404)}

(***************************************************************************)
(* Actions                                                                 *)
(***************************************************************************)
SessionInit ==
    /\ messages = <<>>
    /\ itinerary_data = [destination |-> "", days |-> 0, start_date |-> NoValue,
                         activities |-> EmptyDict, generated |-> FALSE]
    /\ itinerary_generated = FALSE
    /\ full_itinerary_text = ""
    /\ api_calls = 0
    /\ last_query_time = NoValue
    /\ use_cached_response = FALSE
    /\ cached_responses = EmptyDict
    /\ now = 0
    /\ last_run = NoRun
    /\ date_input_shown = FALSE
    /\ last_export = NoExport

NotExtracted == [done |-> FALSE, data |-> [activities |-> EmptyDict]]

NoCacheOp == [op |-> "none", query |-> None, result |-> None]

NotStreamed == [done |-> FALSE, chunks |-> <<>>, reply |-> ""]

Init ==
    /\ SessionInit
    /\ md_text = ""
    /\ extracted = NotExtracted
    /\ cache_log = <<>>
    /\ cache_op = NoCacheOp
    /\ events = <<>>
    /\ streamed = NotStreamed

\* the user submits a prompt in the chat input
Submit(prompt, outcomes, stream) ==
    /\ now < MaxPrompts
    /\ \E R \in {script_run([Session EXCEPT !.now = @ + 1], prompt, outcomes, stream)} :
           /\ messages' = R.S.messages
           /\ itinerary_data' = R.S.itinerary_data
           /\ itinerary_generated' = R.S.itinerary_generated
           /\ full_itinerary_text' = R.S.full_itinerary_text
           /\ api_calls' = R.S.api_calls
           /\ last_query_time' = R.S.last_query_time
           /\ use_cached_response' = R.S.use_cached_response
           /\ cached_responses' = R.S.cached_responses
           /\ now' = R.S.now
           /\ last_run' = R.run
           /\ date_input_shown' = date_input_on_page(itinerary_data, R.S.itinerary_data)
    /\ UNCHANGED <<last_export, extract_vars, cache_vars, stream_vars>>

\* the user flips the "Use cached responses when available" checkbox
ToggleCache ==
    /\ \E S \in {export_section([Session EXCEPT !.use_cached_response = ~@])} :
           /\ use_cached_response' = S.use_cached_response
           /\ itinerary_data' = S.itinerary_data
           /\ date_input_shown' = date_input_on_page(itinerary_data, S.itinerary_data)
    /\ UNCHANGED <<messages, itinerary_generated, full_itinerary_text, api_calls,
                   last_query_time, cached_responses, now, last_run, last_export,
                   extract_vars, cache_vars, stream_vars>>

\* the user picks a date in the date input the page shows
PickStartDate(picked) ==
    /\ date_input_shown
    /\ \E S \in {export_section_with(Session, Some(picked))} :
           /\ itinerary_data' = S.itinerary_data
           /\ date_input_shown' = date_input_on_page(itinerary_data, S.itinerary_data)
    /\ UNCHANGED <<messages, itinerary_generated, full_itinerary_text, api_calls,
                   last_query_time, use_cached_response, cached_responses, now,
                   last_run, last_export, extract_vars, cache_vars, stream_vars>>

\* the user clicks "Add to Calendar", a button of the export section
ClickCalendar ==
    /\ itinerary_generated
    /\ \E C \in {calendar_button(export_section(Session))} :
           /\ itinerary_data' = C.S.itinerary_data
           /\ last_export' = C.export
           /\ date_input_shown' = date_input_on_page(itinerary_data, C.S.itinerary_data)
    /\ UNCHANGED <<messages, itinerary_generated, full_itinerary_text, api_calls,
                   last_query_time, use_cached_response, cached_responses, now,
                   last_run, extract_vars, cache_vars, stream_vars>>

\* the user clicks "Download as PDF" or "Download as Text", buttons of the
\* export section
ClickDownload(kind) ==
    /\ itinerary_generated
    /\ \E S \in {export_section(Session)} :
           /\ itinerary_data' = S.itinerary_data
           /\ last_export' = IF kind = "pdf" THEN pdf_button(S) ELSE text_button(S)
           /\ date_input_shown' = date_input_on_page(itinerary_data, S.itinerary_data)
    /\ UNCHANGED <<messages, itinerary_generated, full_itinerary_text, api_calls,
                   last_query_time, use_cached_response, cached_responses, now,
                   last_run, extract_vars, cache_vars, stream_vars>>

Next ==
    \/ \E prompt \in Prompts, outcomes \in OutcomeScripts, stream \in Streams :
          Submit(prompt, outcomes, stream)
    \/ ToggleCache
    \/ \E picked \in StartDates : PickStartDate(picked)
    \/ ClickCalendar
    \/ \E kind \in {"pdf", "text"} : ClickDownload(kind)

Spec == Init /\ [][Next]_vars

\* extract_itinerary_data applied to a text
Extract ==
    /\ ~extracted.done
    /\ extracted' = [done |-> TRUE, data |-> extract_itinerary_data(md_text)]
    /\ UNCHANGED <<md_text, session_vars, cache_vars, stream_vars>>

InitExtract ==
    /\ SessionInit
    /\ md_text \in ExtractTexts
    /\ extracted = NotExtracted
    /\ cache_log = <<>>
    /\ cache_op = NoCacheOp
    /\ events = <<>>
    /\ streamed = NotStreamed

NextExtract == Extract

SpecExtract == InitExtract /\ [][NextExtract]_vars

\* the handler consumes stream_text on the lines of a response
Stream ==
    /\ ~streamed.done
    /\ \E chunks \in {stream_text(events)} :
           streamed' = [done |-> TRUE, chunks |-> chunks, reply |-> concat(chunks)]
    /\ UNCHANGED <<events, session_vars, extract_vars, cache_vars>>

InitStream ==
    /\ SessionInit
    /\ md_text = ""
    /\ extracted = NotExtracted
    /\ cache_log = <<>>
    /\ cache_op = NoCacheOp
    /\ events \in EventSeqs(MaxEvents)
    /\ streamed = NotStreamed

NextStream == Stream

SpecStream == InitStream /\ [][NextStream]_vars

\* store(query, response): what the handler does after a completed turn
Store(query, response) ==
    /\ Len(cache_log) < MaxStores
    /\ cached_responses' = store(cached_responses, query, response)
    /\ cache_log' = Append(cache_log, [query |-> query, response |-> response])
    /\ cache_op' = [op |-> "store", query |-> query, result |-> response]
    /\ UNCHANGED <<messages, itinerary_data, itinerary_generated, full_itinerary_text,
                   api_calls, last_query_time, use_cached_response, now, last_run,
                   date_input_shown, last_export, extract_vars, stream_vars>>

\* lookup(query)
Lookup(query) ==
    /\ cache_op' = [op |-> "lookup", query |-> query,
                    result |-> get_cached_response(cached_responses, query)]
    /\ UNCHANGED <<session_vars, extract_vars, cache_log, stream_vars>>

NextCache ==
    \/ \E query \in CacheQueries, response \in CacheReplies : Store(query, response)
    \/ \E query \in CacheQueries : Lookup(query)

SpecCache == Init /\ [][NextCache]_vars

(***************************************************************************)
(* Properties                                                              *)
(***************************************************************************)
\* a step that is a chat-input run: only Submit moves the clock
SubmitStep == now' # now

FirstOk(outcomes) ==
    LET oks == {i \in 1..Len(outcomes) : outcomes[i] = "ok"}
    IN  IF oks = {} THEN 0 ELSE CHOOSE i \in oks : \A j \in oks : i <= j

\* C1: a backend call that meets a transport-level failure is attempted
\* again, up to 3 attempts in all: when the first two attempts fail and the
\* third succeeds the call returns the response, after exactly 3 attempts,
\* and a call is reported as failed only after 3 failed attempts.
C1_RetriedUpToThreeAttempts ==
    last_run.kind \in {"ok", "failed"} =>
        /\ FirstOk(last_run.outcomes) = 3 =>
              last_run.kind = "ok" /\ last_run.attempts = 3
        /\ last_run.kind = "failed" =>
              last_run.attempts = STOP_AFTER_ATTEMPT /\ FirstOk(last_run.outcomes) = 0

\* C2: a chat-input run whose backend call fails leaves the history, the
\* response cache and the itinerary state exactly as they were before the
\* prompt was submitted.
C2_FailureRestoresSession ==
    [][(SubmitStep /\ last_run'.kind = "failed") =>
          /\ messages' = messages
          /\ cached_responses' = cached_responses
          /\ itinerary_data' = itinerary_data
          /\ itinerary_generated' = itinerary_generated
          /\ full_itinerary_text' = full_itinerary_text]_vars

\* a failed call in a session that already holds an answered prompt and a
\* generated itinerary, for a prompt that is not in the cache
C2_Witness ==
    /\ last_run.kind = "failed"
    /\ Len(messages) = 2
    /\ itinerary_generated
    /\ itinerary_data["destination"] = "Paris"
    /\ last_run.prompt \notin DOMAIN cached_responses
    /\ api_calls = 2

\* the positions of the store calls made for query q
StoredAt(q) == {i \in 1..Len(cache_log) : cache_log[i].query = q}

\* C3: a lookup of a query that was stored returns exactly the reply of the
\* most recent store for that query, also when the query contains a canned
\* keyword and whatever other queries were stored in between.
C3_LookupReturnsLastStored ==
    (cache_op.op = "lookup" /\ StoredAt(cache_op.query) # {}) =>
        LET last == CHOOSE i \in StoredAt(cache_op.query) :
                        \A j \in StoredAt(cache_op.query) : j <= i
        IN  cache_op.result = cache_log[last].response

\* a query holding a canned keyword, stored twice with different replies,
\* then another query stored, then the first one looked up
C3_Witness ==
    /\ cache_op.op = "lookup"
    /\ cache_op.query = "What should I pack for Japan?"
    /\ Len(cache_log) = 3
    /\ cache_log[1].query = cache_op.query
    /\ cache_log[2].query = cache_op.query
    /\ cache_log[1].response = "Bring an umbrella."
    /\ cache_log[2].response = ""
    /\ cache_log[3].query # cache_op.query
    /\ cache_op.result = ""

\* the table entries whose keyword is a substring of the lower-cased query
KeywordHits(q) ==
    {i \in 1..Len(COMMON_QUERIES) : contains(lower(q), COMMON_QUERIES[i].key)}

\* C4: a lookup of a query that has no exact-match entry returns the canned
\* answer of the first table entry, in table order, whose keyword is a
\* substring of the lower-cased query, and reports a miss only when there is
\* no such entry.
C4_FirstKeywordInTableOrder ==
    (cache_op.op = "lookup" /\ cache_op.query \notin DOMAIN cached_responses) =>
        IF KeywordHits(cache_op.query) = {}
        THEN cache_op.result = None
        ELSE LET first == CHOOSE i \in KeywordHits(cache_op.query) :
                              \A j \in KeywordHits(cache_op.query) : i <= j
             IN  cache_op.result = COMMON_QUERIES[first].response

\* an upper-case keyword of the third entry precedes, in the query, a keyword
\* of the second entry: the second entry answers
C4_Witness ==
    /\ cache_op.op = "lookup"
    /\ cache_op.query = "BEST TIME TO VISIT Rome, and what should i pack"
    /\ cache_op.query \notin DOMAIN cached_responses
    /\ cached_responses # EmptyDict
    /\ KeywordHits(cache_op.query) = {2, 3}
    /\ cache_op.result = COMMON_QUERIES[2].response

\* C5: once a prompt has been answered its literal text is in the cache with
\* the reply, and a later submission of a prompt that is in the cache, with
\* caching enabled, is answered by that entry without a backend call.
C5_AnsweredPromptHitsCache ==
    [][SubmitStep =>
          /\ last_run'.kind \in {"hit", "ok"} =>
                /\ last_run'.prompt \in DOMAIN cached_responses'
                /\ cached_responses'[last_run'.prompt] = last_run'.reply
          /\ (use_cached_response /\ last_run'.prompt \in DOMAIN cached_responses) =>
                /\ last_run'.kind = "hit"
                /\ last_run'.reply = cached_responses[last_run'.prompt]
                /\ api_calls' = api_calls]_vars

\* the text has a line that begins with "# Day" or "## Day"
HasDayHeader(text) ==
    \E i \in 1..Len(text) :
        /\ i = 1 \/ CharAt(text, i - 1) = "\n"
        /\ \/ i + 4 <= Len(text) /\ SubSeq(text, i, i + 4) = "# Day"
           \/ i + 5 <= Len(text) /\ SubSeq(text, i, i + 5) = "## Day"

\* C6: for a text without a line beginning with "# Day" or "## Day", the
\* extraction ends with an empty days mapping, whatever bullet lines, colons
\* and "Itinerary for" lines the text holds.
C6_NoHeaderNoDays ==
    (extracted.done /\ ~HasDayHeader(md_text)) =>
        DOMAIN extracted.data["activities"] = {}

\* a text with a destination line, a "Day" line that is no header and a
\* timed bullet line
C6_Witness ==
    /\ extracted.done
    /\ md_text = "Itinerary for Paris\nDay 3: not a header\n- 9:00 AM: Breakfast"
    /\ ~HasDayHeader(md_text)
    /\ extracted.data["destination"] = "Paris"
    /\ DOMAIN extracted.data["activities"] = {}

\* C7: every day number registered by the extraction is at least 1.
C7_DayNumbersPositive ==
    extracted.done => \A d \in DOMAIN extracted.data["activities"] : d >= 1

\* C8: every activity the extraction produces has an hour from 0 to 23.
C8_HoursWithinDay ==
    extracted.done =>
        \A d \in DOMAIN extracted.data["activities"] :
            \A i \in 1..Len(extracted.data["activities"][d]) :
                extracted.data["activities"][d][i].hour \in 0..23

\* the hour the time of an activity line stands for
TimedLines ==
    [line \in {"- 9:00 AM: Breakfast", "- 2:00 PM: Museum", "- Afternoon: Museum"} |->
        CASE line = "- 9:00 AM: Breakfast" -> 9
          [] line = "- 2:00 PM: Museum"    -> 14
          [] line = "- Afternoon: Museum"  -> 9]

\* C9: under an active day, an activity line "- H:MM AM: ..." gets hour H,
\* "- H:MM PM: ..." gets hour H + 12, and a line whose time has no AM/PM
\* marker gets hour 9.
C9_TimeOfActivityLine ==
    \A line \in DOMAIN TimedLines :
        (extracted.done /\ md_text = "## Day 1: Arrival\n" \o line) =>
            /\ DOMAIN extracted.data["activities"] = {1}
            /\ Len(extracted.data["activities"][1]) = 1
            /\ extracted.data["activities"][1][1].hour = TimedLines[line]

\* the names of a list of activities
RECURSIVE Names(_)
Names(activities) ==
    IF Len(activities) = 0 THEN <<>>
    ELSE <<Head(activities).name>> \o Names(Tail(activities))

\* C10: the Paris text yields destination Paris, day 1 with the activities
\* Visit Eiffel Tower and Dinner at Le Jules Verne, and day 2 with the
\* activity Louvre Museum, each named by the text after its time.
C10_ParisScenario ==
    (extracted.done /\ md_text = ParisItinerary) =>
        /\ extracted.data["destination"] = "Paris"
        /\ DOMAIN extracted.data["activities"] = {1, 2}
        /\ Names(extracted.data["activities"][1]) =
              <<"Visit Eiffel Tower", "Dinner at Le Jules Verne">>
        /\ Names(extracted.data["activities"][2]) = <<"Louvre Museum">>

\* the day and the index of every activity of the itinerary
ActivitySlots(activities) ==
    UNION {{<<d, i>> : i \in 1..Len(activities[d])} : d \in DOMAIN activities}

\* the moment hours after the midnight that starts the day-th day from start
MomentOf(start, day, hours) ==
    [ordinal |-> start.ordinal + (day - 1) + (hours \div 24),
     second  |-> (hours % 24) * 3600]

\* C11: a calendar export holds exactly one event per activity of the
\* itinerary; the event of an activity of day d starts at the start date plus
\* d - 1 days plus the activity's hour in hours, lasts the activity's duration
\* in hours, and carries its name, description and location.
C11_OneEventPerActivity ==
    last_export.file # NoValue =>
        \A cal \in last_export.file, start \in last_export.start_date :
            /\ Cardinality(cal) = Cardinality(ActivitySlots(itinerary_data["activities"]))
            /\ \A slot \in ActivitySlots(itinerary_data["activities"]) :
                   \E e \in cal :
                       /\ e.name = itinerary_data["activities"][slot[1]][slot[2]].name
                       /\ e.description =
                              itinerary_data["activities"][slot[1]][slot[2]].description
                       /\ e.location =
                              itinerary_data["activities"][slot[1]][slot[2]].location
                       /\ e.duration =
                              [days |-> 0,
                               seconds |-> 3600 *
                                   itinerary_data["activities"][slot[1]][slot[2]].duration]
                       /\ e.begin =
                              MomentOf(start, slot[1],
                                       itinerary_data["activities"][slot[1]][slot[2]].hour)

\* a step that is a calendar export request: only ClickCalendar writes a
\* calendar export to last_export
CalendarStep == last_export' # last_export /\ last_export'.kind = "calendar"

C13_StartDateSetOnce ==
    /\ itinerary_data["start_date"] = NoValue
    /\ [][/\ itinerary_data["start_date"] # NoValue =>
                 itinerary_data'["start_date"] = itinerary_data["start_date"]
          /\ (itinerary_data["start_date"] = NoValue
                 /\ itinerary_data'["start_date"] # NoValue) =>
                 /\ date_input_shown'
                 /\ itinerary_generated'
                 /\ itinerary_data'["start_date"] =
                        {[ordinal |-> (now' \div 86400) + 30]}]_vars

\* a start date that has been through a pick in the date input, a further
\* answered prompt and a calendar export
C13_Witness ==
    /\ itinerary_data["start_date"] = {date(30)}
    /\ ~date_input_shown
    /\ Len(messages) = 4
    /\ messages[2].content = ParisItinerary
    /\ last_run.kind = "ok"
    /\ last_export.kind = "calendar"

\* the last n elements of l, all of them when l has fewer
LastTurns(l, n) == SubSeq(l, IF Len(l) > n THEN Len(l) - n + 1 ELSE 1, Len(l))

\* the history a backend call of the last run was given: the stored history
\* with the user turn of the prompt, before the reply was appended
HistoryAtCall ==
    CASE last_run.kind = "ok"      -> SubSeq(messages, 1, Len(messages) - 1)
      [] last_run.kind = "crashed" -> messages
      [] OTHER -> Append(messages, [role |-> "user", content |-> last_run.prompt])

\* C14: the request of every backend call holds the system instruction
\* first, then the last 4 turns of the history the call was given (all of
\* them when it has fewer), in order; the stored history never holds a
\* system turn.
C14_SystemThenLastFourTurns ==
    /\ \A i \in 1..Len(messages) : messages[i].role \in {"user", "assistant"}
    /\ last_run.kind \in {"ok", "failed", "crashed"} =>
           /\ Head(last_run.request).role = "system"
           /\ Head(last_run.request).content = SYSTEM_CONTENT
           /\ Tail(last_run.request) = LastTurns(HistoryAtCall, 4)

\* a call made with a history of five turns: the first one is left out
C14_Witness ==
    /\ last_run.kind = "ok"
    /\ Len(messages) = 6
    /\ Len(last_run.request) = 5
    /\ last_run.request[2] = messages[2]
    /\ last_run.request[5] = messages[5]
    /\ messages[5].content = last_run.prompt

\* the lines of the text handed to the extraction
TextLines == split(md_text, "\n")

\* the line begins like a day header
IsDayHeader(line) == startswith(line, "# Day") \/ startswith(line, "## Day")

\* the text of a header between its first "Day" and the colon, the next
\* "Day" or the end of the line, whichever comes first
NumberText(line) ==
    LET rest == Suffix(line, find(line, "Day") + 3)
        ends == {p \in {find(rest, ":"), find(rest, "Day")} : p > 0}
    IN  IF ends = {} THEN rest
        ELSE SubSeq(rest, 1, (CHOOSE p \in ends : \A q \in ends : p <= q) - 1)

\* the line is a day header whose number is an integer
ParsedHeader(line) == IsDayHeader(line) /\ int(NumberText(line)).ok

\* the day of the last header with an integer number before line k, 0 when
\* there is none
DayInForce(lines, k) ==
    LET hs == {j \in 1..(k - 1) : ParsedHeader(lines[j])}
    IN  IF hs = {} THEN 0
        ELSE int(NumberText(lines[CHOOSE j \in hs : \A i \in hs : i <= j])).val

\* the line is a bullet line whose text holds a colon
ColonBullet(line) ==
    /\ startswith(line, "- ") \/ startswith(line, "* ")
    /\ contains(Suffix(line, 3), ":")

\* the text of a bullet line after its first colon, trimmed
AfterColon(line) == strip(Suffix(line, find(line, ":") + 1))

\* the names of the bullet lines with a colon, among the first k lines, that
\* stand under day d
RECURSIVE BulletNames(_, _, _)
BulletNames(lines, d, k) ==
    IF k = 0 THEN <<>>
    ELSE BulletNames(lines, d, k - 1) \o
         (IF ColonBullet(lines[k]) /\ DayInForce(lines, k) = d
          THEN <<AfterColon(lines[k])>> ELSE <<>>)

\* C15: the activities listed under a day d are, in order, those of the bullet
\* lines with a colon whose most recent parsed day header introduces d; a
\* bullet line without a colon, or with no parsed header before it, gives no
\* activity.
C15_ActivitiesFollowTheirHeader ==
    extracted.done =>
        \A d \in DOMAIN extracted.data["activities"] :
            Names(extracted.data["activities"][d]) =
                IF d > 0 THEN BulletNames(TextLines, d, Len(TextLines)) ELSE <<>>

\* a bullet line before any header and one under a header
C15_Witness ==
    /\ extracted.done
    /\ md_text = "- 2:00 PM: Museum\n## Day 1: Arrival\n* 12 PM: Lunch"
    /\ DOMAIN extracted.data["activities"] = {1}
    /\ Names(extracted.data["activities"][1]) = <<"Lunch">>

\* the current day and the data of the extraction before the first line is
\* scanned and after each line
RECURSIVE Scans(_, _)
Scans(st, lines) ==
    IF Len(lines) = 0 THEN <<st>>
    ELSE <<st>> \o Scans(extract_line(st, Head(lines)), Tail(lines))

\* the header holds an integer between its first "Day" and a colon
NumberThenColon(line) ==
    LET rest == Suffix(line, find(line, "Day") + 3)
    IN  /\ find(rest, ":") > 0
        /\ int(SubSeq(rest, 1, find(rest, ":") - 1)).ok

\* the scan of a line leaves the current day and the days mapping as they were
HeaderIgnored(before, after) ==
    /\ after.current_day = before.current_day
    /\ after.data["activities"] = before.data["activities"]

\* the scan of a line makes day n the current day, registers it, and keeps
\* the activities recorded so far
HeaderRegistered(before, after, n) ==
    /\ after.current_day = n
    /\ n \in DOMAIN after.data["activities"]
    /\ \A d \in DOMAIN before.data["activities"] :
           /\ d \in DOMAIN after.data["activities"]
           /\ after.data["activities"][d] = before.data["activities"][d]

TrailingText(line) ==
    strip(Suffix(line, find(line, "Itinerary for") + Len("Itinerary for")))

\* the destination in force when line k is scanned: the trailing text of the
\* last "Itinerary for" line up to line k, empty when there is none
DestinationAt(lines, k) ==
    LET ds == {j \in 1..k : contains(lines[j], "Itinerary for")}
    IN  IF ds = {} THEN ""
        ELSE TrailingText(lines[CHOOSE j \in ds : \A i \in ds : i <= j])

\* the destinations in force at the bullet lines with a colon, among the
\* first k lines, that stand under day d
RECURSIVE BulletLocations(_, _, _)
BulletLocations(lines, d, k) ==
    IF k = 0 THEN <<>>
    ELSE BulletLocations(lines, d, k - 1) \o
         (IF ColonBullet(lines[k]) /\ DayInForce(lines, k) = d
          THEN <<DestinationAt(lines, k)>> ELSE <<>>)

\* the locations of a list of activities
RECURSIVE Locations(_)
Locations(activities) ==
    IF Len(activities) = 0 THEN <<>>
    ELSE <<Head(activities).location>> \o Locations(Tail(activities))

\* C17: the destination of a text with "Itinerary for" lines is the trimmed
\* trailing text of the last of them; the location of every activity is the
\* destination in force when its line is scanned, empty when no "Itinerary
\* for" line precedes it, and its duration is 2.
C17_LastDestinationWins ==
    extracted.done =>
        /\ (\E k \in 1..Len(TextLines) : contains(TextLines[k], "Itinerary for")) =>
               /\ "destination" \in DOMAIN extracted.data
               /\ extracted.data["destination"] =
                      DestinationAt(TextLines, Len(TextLines))
        /\ \A d \in DOMAIN extracted.data["activities"] :
               /\ d > 0 => Locations(extracted.data["activities"][d]) =
                               BulletLocations(TextLines, d, Len(TextLines))
               /\ \A i \in 1..Len(extracted.data["activities"][d]) :
                      extracted.data["activities"][d][i].duration = 2

\* what an event line of the pool carries
EventOf(line) == CHOOSE e \in EventPool : e.line = line

\* the non-empty contents of the content events before the first end-of-stream
\* event, in order
RECURSIVE Fragments(_)
Fragments(lines) ==
    IF Len(lines) = 0 \/ EventOf(Head(lines)).kind = "done" THEN <<>>
    ELSE (IF EventOf(Head(lines)).kind = "content" /\ EventOf(Head(lines)).content # ""
          THEN <<EventOf(Head(lines)).content>> ELSE <<>>) \o Fragments(Tail(lines))

\* the concatenation of a list of strings
RECURSIVE Joined(_)
Joined(strings) ==
    IF Len(strings) = 0 THEN "" ELSE Head(strings) \o Joined(Tail(strings))

\* C18: the stream of a reply yields, in order and once each, exactly the
\* non-empty contents of the well-formed content events before the first
\* "[DONE]" event; malformed events are skipped, events after "[DONE]" are
\* not yielded, and the accumulated reply is the concatenation of the
\* yielded fragments.
C18_FragmentsOfTheStream ==
    streamed.done =>
        /\ streamed.chunks = Fragments(events)
        /\ streamed.reply = Joined(Fragments(events))

\* what the cache holds for a query: its exact-match entry, else the canned
\* answer of the first table entry whose keyword the query holds
CachedReply(q) ==
    IF q \in DOMAIN cached_responses THEN cached_responses[q]
    ELSE COMMON_QUERIES[CHOOSE i \in KeywordHits(q) : \A j \in KeywordHits(q) : i <= j].response

\* C19: a prompt answered from the cache issues no backend request: the call
\* counter, the last-call timestamp and the itinerary state stay as they
\* were and the history grows by the user turn and one assistant turn with
\* the cached reply; in every step the call counter grows by the number of
\* backend attempts made, and by nothing else.
C19_CacheHitMakesNoCall ==
    [][/\ (SubmitStep /\ last_run'.kind = "hit") =>
              /\ use_cached_response
              /\ last_run'.attempts = 0
              /\ last_run'.reply = CachedReply(last_run'.prompt)
              /\ last_query_time' = last_query_time
              /\ itinerary_data' = itinerary_data
              /\ itinerary_generated' = itinerary_generated
              /\ full_itinerary_text' = full_itinerary_text
              /\ messages' = messages \o
                     <<[role |-> "user", content |-> last_run'.prompt],
                       [role |-> "assistant", content |-> last_run'.reply]>>
       /\ api_calls' = api_calls + (IF SubmitStep THEN last_run'.attempts ELSE 0)]_vars

\* the prompt that produced the itinerary is submitted again and answered
\* from the cache, after one backend call in all
C19_Witness ==
    /\ last_run.kind = "hit"
    /\ last_run.prompt = "Plan 2 days in Paris"
    /\ last_run.reply = ParisItinerary
    /\ api_calls = 1
    /\ itinerary_generated
    /\ Len(messages) = 4
    /\ messages[4].content = ParisItinerary

\* the text holds something to extract: a destination or a parsed day header
Extractable(text) ==
    \E lines \in {split(text, "\n")} :
        \/ DestinationAt(lines, Len(lines)) # ""
        \/ \E k \in 1..Len(lines) : ParsedHeader(lines[k])

\* C20, as claimed: the generated flag of the itinerary is true exactly when
\* the reply the session took as its itinerary was extracted into a
\* destination or a day, it never returns to false, and the session flag
\* itinerary_generated is true only if it is true.
C20_SessionFlagImpliesGenerated ==
    /\ [](/\ itinerary_data["generated"] <=>
                 (itinerary_generated /\ Extractable(full_itinerary_text))
          /\ itinerary_generated => itinerary_data["generated"])
    /\ [][itinerary_data["generated"] => itinerary_data'["generated"]]_vars

\* C20, amended: the generated flag of the itinerary is true exactly when
\* the reply the session took as its itinerary was extracted into a
\* destination or a day, it never returns to false, and it is true only if
\* the session flag itinerary_generated is true; the session flag can be
\* true while it is false.
C20_GeneratedImpliesSessionFlag ==
    /\ [](/\ itinerary_data["generated"] <=>
                 (itinerary_generated /\ Extractable(full_itinerary_text))
          /\ itinerary_data["generated"] => itinerary_generated)
    /\ [][itinerary_data["generated"] => itinerary_data'["generated"]]_vars

\* the session took a reply with a day marker and nothing to extract as its
\* itinerary; a later reply that could be extracted is not
C20_Witness ==
    /\ itinerary_generated
    /\ ~itinerary_data["generated"]
    /\ full_itinerary_text = BeachPlan
    /\ Len(messages) = 4
    /\ messages[4].content = ParisItinerary
    /\ last_run.kind = "ok"

\* the turn is an assistant turn that holds a day marker
MarkedReply(turn) ==
    /\ turn.role = "assistant"
    /\ \E marker \in {"Day 1:", "Day 1 -", "## Day 1", "# Day 1"} :
           contains(turn.content, marker)

\* the first reply of the history that holds a day marker, None when no
\* reply does
FirstItinerary(history) ==
    LET marked == {i \in 1..Len(history) : MarkedReply(history[i])}
    IN  IF marked = {} THEN None
        ELSE history[CHOOSE i \in marked : \A j \in marked : i <= j].content

\* the activities are, day by day, those of the bullet lines of the text
ActivitiesOf(activities, lines) ==
    \A d \in DOMAIN activities :
        Names(activities[d]) = IF d > 0 THEN BulletNames(lines, d, Len(lines)) ELSE <<>>

\* the export is made from the text, the destination and the activities
ExportOf(export, text, destination, activities) ==
    /\ export.kind \in {"pdf", "text"} => export.text = text /\ export.file # NoValue
    /\ export.kind = "text" => export.file = {text}
    /\ export.kind = "pdf" =>
           \A doc \in export.file : Head(doc).text = "Travel Itinerary: " \o destination
    /\ (export.kind = "calendar" /\ export.file # NoValue) =>
           \A cal \in export.file :
               {<<e.uid[1], e.name>> : e \in cal} =
                   {<<slot[1], activities[slot[1]][slot[2]].name>> :
                        slot \in ActivitySlots(activities)}

\* C21: once a reply has been detected as an itinerary, no step replaces the
\* stored text, the destination or the activities; the stored text is at all
\* times the first reply of the history that holds a day marker, whatever
\* itineraries later replies hold; the activities stored at the detection
\* are those of its bullet lines; every PDF, text and calendar export is made
\* from the stored text, destination and activities.
C21_FirstItineraryKept ==
    /\ [](itinerary_generated => full_itinerary_text = FirstItinerary(messages))
    /\ [][/\ itinerary_generated =>
                 /\ itinerary_generated'
                 /\ full_itinerary_text' = full_itinerary_text
                 /\ itinerary_data'["destination"] = itinerary_data["destination"]
                 /\ itinerary_data'["activities"] = itinerary_data["activities"]
          /\ (~itinerary_generated /\ itinerary_generated') =>
                 \A lines \in {split(full_itinerary_text', "\n")},
                    data \in {itinerary_data'} :
                     ActivitiesOf(data["activities"], lines)
          /\ last_export' # last_export =>
                 \A export \in {last_export'}, data \in {itinerary_data'} :
                     ExportOf(export, full_itinerary_text', data["destination"],
                              data["activities"])]_vars

\* the Paris itinerary was detected, a later reply holds another itinerary,
\* and the PDF made afterwards is that of the Paris itinerary
C21_Witness ==
    /\ itinerary_generated
    /\ full_itinerary_text = ParisItinerary
    /\ itinerary_data["destination"] = "Paris"
    /\ Len(messages) = 4
    /\ messages[2].content = ParisItinerary
    /\ messages[4].content = BeachPlan
    /\ last_run.kind = "ok"
    /\ last_export.kind = "pdf"
    /\ last_export.text = ParisItinerary

\* the history is an even number of turns, user and assistant in alternation,
\* a user turn first
Alternating(history) ==
    /\ Len(history) % 2 = 0
    /\ \A i \in 1..Len(history) :
           history[i].role = IF i % 2 = 1 THEN "user" ELSE "assistant"

\* C22: after a prompt handled by a cache hit, a backend reply or a failed
\* backend call, the history is an even number of strictly alternating user
\* and assistant turns that starts with a user turn, and it is the history
\* before the prompt with turns appended at its end, none after a failure.
C22_HistoryAlternates ==
    [][(SubmitStep /\ last_run'.kind \in {"hit", "ok", "failed"}) =>
          /\ Alternating(messages')
          /\ Len(messages') >= Len(messages)
          /\ SubSeq(messages', 1, Len(messages)) = messages
          /\ last_run'.kind = "failed" => messages' = messages]_vars

====
